---- MODULE Spec2Model ----
(***************************************************************************)
(* Model of src/mistral_agent.js: class MistralAPI.                        *)
(* doReview / doReviewImpl / processRun are one asynchronous control flow; *)
(* every await of an external call is one step of the model.  External     *)
(* calls (the agent service, fileContentGetter, fileCommentator) succeed   *)
(* or raise nondeterministically.                                          *)
(***************************************************************************)
EXTENDS Integers, Sequences, FiniteSets, TLC

\* ---------------------------------------------------------------- bounds
MaxSessions == 2      \* doReview calls made on the one MistralAPI object
MaxPolls == 2         \* status polls (runs.retrieve) made through the object
MaxBatch == 2         \* pending tool calls presented by one poll
MaxMsgs == 3          \* messages returned by messages.list
MaxTextLen == 13      \* length of a text in the window specification
LineBelow == 22       \* requested line numbers start at -LineBelow (window specification)
MaxLine == 36         \* largest requested line number (window specification)

\* ------------------------------------------------------ program constants
maxRetries == 3
span == 20
backoffUnit == 1000
pollInterval == 1000

\* ------------------------------------------------------------ input sets
Paths == {"a.js", "b.js"}
Texts == {<<"l1", "l2", "l3">>, <<"m1", "m2">>}
Messages == {"A", "B", "C"}
ToolNames == {"getFileContent", "addReviewCommentToFileLine", "codeReviewDone", "doesNotExist"}
Statuses == {"in_progress", "requires_action", "completed", "failed", "cancelled", "expired"}

Max(a, b) == IF a >= b THEN a ELSE b
Min(a, b) == IF a <= b THEN a ELSE b

RECURSIVE Pow2(_)
Pow2(n) == IF n = 0 THEN 1 ELSE 2 * Pow2(n - 1)

\* messages.data: the conversation's messages, each listed once
MessageLists(S, n) ==
    {s \in UNION {[1..k -> S] : k \in 0..n} : \A i, j \in DOMAIN s : s[i] = s[j] => i = j}

\* A pending tool call as the service presents it: toolCall.function.name,
\* toolCall.function.arguments (parses = JSON.parse succeeds; pathToFile,
\* startLineNumber, endLineNumber are the parsed fields used by getFileContent).
\* A call whose argument text does not parse carries no usable fields.
ToolCalls ==
    { [name |-> n, parses |-> ok, pathToFile |-> "a.js", startLineNumber |-> 5, endLineNumber |-> 10] :
        n \in ToolNames, ok \in BOOLEAN }
    \cup
    { [name |-> "getFileContent", parses |-> TRUE, pathToFile |-> p, startLineNumber |-> 5, endLineNumber |-> 10] :
        p \in Paths }

Batches == UNION {[1..k -> ToolCalls] : k \in 1..MaxBatch}

VARIABLES
    pc,             \* position of the doReview control flow
    sessions,       \* doReview calls started so far
    assistantCalls, \* assistants.create calls of the current doReview call
    thread,         \* this.thread: id of the last created conversation, 0 = undefined
    nextThread,     \* next conversation id the service hands out
    live,           \* conversations created and not deleted
    deleted,        \* conversations deleted so far
    retries,        \* doReview's local retries
    err,            \* error caught by doReview's catch: <<kind, attempt>>
    raisedErr,      \* error doReview raised to its caller
    runStatus,      \* this.runStatus.status
    batch,          \* this.runStatus.required_action.submit_tool_outputs.tool_calls
    callIds,        \* toolCall.id of each element of batch
    idx,            \* position of the for loop over batch
    tools_results,  \* processRun's tools_results
    fileCache,      \* this.fileCache: function from cached paths to text
    polls,          \* runs.retrieve calls made so far
    createCalls,    \* threads.create calls of the current doReview call
    delCalls,       \* thread ids passed to threads.del in the current doReview call
    sleeps,         \* backoff delays slept in the current doReview call
    pollSleeps,     \* milliseconds slept by processRun since the last status poll
    submits,        \* submitToolOutputs calls issued since the last status poll
    outcomes,       \* outcome of the external effect of each call dispatched in this cycle
    fetchCount,     \* fileContentGetter invocations per path, current doReview call
    fetchOK,        \* successful fileContentGetter invocations per path, current call
    served,         \* texts windows were sliced from, per path, current doReview call
    sink,           \* comments delivered to fileCommentator, per attempt number
    listCalls,      \* messages.list calls in the current attempt
    listed,         \* messages.data as returned by the last messages.list
    emitted,        \* console.log emissions of the current attempt
    endReason,      \* why processRun returned: "none", "done", "completed"
    inFlight,       \* tool_call_ids whose fileContentGetter / fileCommentator call is pending
    attemptThread,  \* conversation created by the current attempt, 0 = none
    callThreads,    \* conversations created by the current doReview call
    assistant,      \* this.assistant: id of the last created agent definition, 0 = undefined
    runAssistant,   \* assistant_id the current run was created with
    wText, wStart, wEnd, wOut   \* window specification: input text, requested range, result

vars == <<pc, sessions, assistantCalls, thread, nextThread, live, deleted, retries, err,
          raisedErr, runStatus, batch, callIds, idx, tools_results, fileCache, polls,
          createCalls, delCalls, sleeps, pollSleeps, submits, outcomes, fetchCount,
          fetchOK, served, sink, listCalls, listed, emitted, endReason,
          inFlight, attemptThread, callThreads, assistant, runAssistant,
          wText, wStart, wEnd, wOut>>

wvars == <<wText, wStart, wEnd, wOut>>

NoErr == <<"none", 0>>

\* ------------------------------------------------------------ pure parts

\* String.prototype.substring(start, end): both indices are clamped to
\* [0, length] and swapped when start > end.
Clamp(i, len) == Min(Max(i, 0), len)
substring(content, start, end) ==
    LET a == Clamp(start, Len(content))
        b == Clamp(end, Len(content))
    IN SubSeq(content, Min(a, b) + 1, Max(a, b))

\* line 111 without the lower clamp
WindowStartUnclamped(startLineNumber) == startLineNumber - span

\* line 111
WindowStart(startLineNumber) == Max(startLineNumber - span, 0)
\* line 112
WindowEnd(endLineNumber, len) == Min(endLineNumber + span, len)
\* line 113
Window(pathToFile, content, startLineNumber, endLineNumber) ==
    [kind |-> "window", name |-> pathToFile,
     body |-> substring(content, WindowStart(startLineNumber),
                        WindowEnd(endLineNumber, Len(content)))]

\* line 105 left out: the fetched text is not stored
CacheStoreDropped(cache, p, content) == cache

\* line 105 replacing the whole cache by the new entry
CacheStoreEvicting(cache, p, content) == [q \in {p} |-> content]

\* line 105
CacheStore(cache, p, content) ==
    [q \in (DOMAIN cache) \cup {p} |-> IF q = p THEN content ELSE cache[q]]

\* line 101
CacheHit(cache, p) == p \in DOMAIN cache

\* lines 95-114.  fetchOk / text: outcome of fileContentGetter if it is invoked.
getFileContent(args, cache, fetchOk, text) ==
    LET hit == CacheHit(cache, args.pathToFile)
        content == IF hit THEN cache[args.pathToFile] ELSE text
    IN IF ~hit /\ ~fetchOk
       THEN [raised |-> TRUE,
             output |-> [kind |-> "error", name |-> "Failed to retrieve file content", body |-> <<>>],
             cache |-> cache, invoked |-> TRUE, content |-> <<>>]
       ELSE [raised |-> FALSE,
             output |-> Window(args.pathToFile, content, args.startLineNumber, args.endLineNumber),
             cache |-> IF hit THEN cache ELSE CacheStore(cache, args.pathToFile, text),
             invoked |-> ~hit, content |-> content]

\* lines 116-124.  postOk: outcome of fileCommentator.
addReviewCommentToFileLine(postOk) ==
    IF postOk
    THEN [raised |-> FALSE, output |-> [kind |-> "published", name |-> "The note has been published.", body |-> <<>>]]
    ELSE [raised |-> FALSE, output |-> [kind |-> "usageError", name |-> "addReviewCommentToFileLine", body |-> <<>>]]

\* line 206
UnknownTool(name) == [kind |-> "unknown", name |-> name, body |-> <<>>]

\* lines 198-210 without the catch: a raising handler leaves processRun
CaughtRethrown(name, r) == [raised |-> r.raised, output |-> r.output]

\* lines 198-210: processRun's try/catch around one handler; what leaves it
Caught(name, r) ==
    IF r.raised
    THEN [raised |-> FALSE,
          output |-> [kind |-> "errorProcessing", name |-> name, body |-> <<r.output.name>>]]
    ELSE [raised |-> FALSE, output |-> r.output]

\* line 211
PushResult(results, id, output) == Append(results, [tool_call_id |-> id, output |-> output])

\* line 153
BackoffDelay(n) == Pow2(n) * backoffUnit

\* line 180 without the reversal
reverseKept(s) == s

\* line 180: Array.prototype.reverse
RECURSIVE reverse(_)
reverse(s) == IF s = <<>> THEN <<>> ELSE Append(reverse(Tail(s)), Head(s))

ZeroCount == [p \in Paths |-> 0]
NoServed == [p \in Paths |-> {}]
NoSink == [a \in 1..maxRetries |-> 0]

\* ------------------------------------------------------------------ Init
WIdle == /\ wText = <<>> /\ wStart = 0 /\ wEnd = 0 /\ wOut = [s |-> 0, e |-> 0, slice |-> <<>>, done |-> FALSE]

MainInit ==
    /\ pc = "idle"
    /\ sessions = 0
    /\ assistantCalls = 0
    /\ thread = 0
    /\ nextThread = 1
    /\ live = {}
    /\ deleted = {}
    /\ retries = 0
    /\ err = NoErr
    /\ raisedErr = NoErr
    /\ runStatus = "none"
    /\ batch = <<>>
    /\ callIds = <<>>
    /\ idx = 0
    /\ tools_results = <<>>
    /\ fileCache = <<>>
    /\ polls = 0
    /\ createCalls = 0
    /\ delCalls = <<>>
    /\ sleeps = <<>>
    /\ pollSleeps = 0
    /\ submits = <<>>
    /\ outcomes = <<>>
    /\ fetchCount = ZeroCount
    /\ fetchOK = ZeroCount
    /\ served = NoServed
    /\ sink = NoSink
    /\ listCalls = 0
    /\ listed = <<>>
    /\ emitted = <<>>
    /\ endReason = "none"
    /\ inFlight = {}
    /\ attemptThread = 0
    /\ callThreads = {}
    /\ assistant = 0
    /\ runAssistant = 0

Init == MainInit /\ WIdle


\* --------------------------------------------------------------- actions
mainvars == <<pc, sessions, assistantCalls, thread, nextThread, live, deleted, retries, err,
              raisedErr, runStatus, batch, callIds, idx, tools_results, fileCache, polls,
              createCalls, delCalls, sleeps, pollSleeps, submits, outcomes, fetchCount,
              fetchOK, served, sink, listCalls, listed, emitted, endReason,
              inFlight, attemptThread, callThreads, assistant, runAssistant>>

threadVars == <<thread, nextThread, live, deleted>>
ownVars == <<attemptThread, callThreads>>
agentVars == <<assistant, runAssistant>>
cycleVars == <<runStatus, batch, callIds, idx, tools_results, submits, outcomes, pollSleeps,
               inFlight>>
toolVars == <<fileCache, fetchCount, fetchOK, served, sink>>
reportVars == <<listCalls, listed, emitted>>
retryVars == <<createCalls, delCalls, sleeps>>

\* An awaited call inside the try of lines 141-144 raised: control is in the
\* catch of line 145 with the error of this attempt.
Fail(kind) ==
    /\ err' = <<kind, retries + 1>>
    /\ pc' = "del"

\* line 149
Exhausted(r) == r >= maxRetries

\* line 142 assigning only when no conversation is held yet
AssignThreadOnce(held, created) == IF held = 0 THEN created ELSE held

\* line 142: this.thread = await this.mistral.threads.create()
AssignThread(held, created) == created

\* the loop of line 140 re-entered at the agent definition
RetryFromInit == "init"

\* line 140: after the backoff the loop body starts again at line 142
RetryFrom == "create"

\* doReview clearing the cache when it starts
CacheClearedAtCall(cache) == <<>>

\* lines 126-136: doReview starts without touching this.fileCache
CacheAtCall(cache) == cache

\* a handler that takes back the comments of the failed attempt
CommentsRolledBack(delivered, attempt) == [delivered EXCEPT ![attempt] = 0]

\* lines 145-152: the handler only deletes the conversation
CommentsAfterFailure(delivered, attempt) == delivered

\* the handler's call started without waiting for it
AwaitingNot == "dispatch"

\* lines 200 and 202: the for loop is suspended until the handler's call settles
Awaiting == "await"

\* line 219 skipped after a submission
PollDelaySkipped(status) == IF status = "requires_action" THEN 0 ELSE pollInterval

\* line 219: the sleep does not depend on the status
PollDelay(status) == pollInterval

\* line 220 leaving the loop on every terminal status
LoopEndsOnTerminal(status) == status \in {"completed", "failed", "cancelled", "expired"}

\* line 220: the do-while ends only on completed
LoopEnds(status) == status = "completed"

\* line 126: a caller invokes doReview on the object
CallDoReview ==
    /\ pc \in {"idle", "returned", "raised"}
    /\ sessions < MaxSessions
    /\ sessions' = sessions + 1
    /\ pc' = "init"
    /\ assistantCalls' = 0
    /\ retries' = 0
    /\ err' = NoErr
    /\ raisedErr' = NoErr
    /\ runStatus' = "none"
    /\ batch' = <<>>
    /\ callIds' = <<>>
    /\ idx' = 0
    /\ tools_results' = <<>>
    /\ createCalls' = 0
    /\ delCalls' = <<>>
    /\ sleeps' = <<>>
    /\ pollSleeps' = 0
    /\ submits' = <<>>
    /\ outcomes' = <<>>
    /\ fetchCount' = ZeroCount
    /\ fetchOK' = ZeroCount
    /\ served' = NoServed
    /\ sink' = NoSink
    /\ listCalls' = 0
    /\ listed' = <<>>
    /\ emitted' = <<>>
    /\ endReason' = "none"
    /\ inFlight' = {}
    /\ attemptThread' = 0
    /\ callThreads' = {}
    /\ runAssistant' = 0
    /\ fileCache' = CacheAtCall(fileCache)
    /\ UNCHANGED <<threadVars, assistant, polls, wvars>>

\* lines 17-93 and 136-139
InitCodeReviewAssistant ==
    /\ pc = "init"
    /\ assistantCalls' = assistantCalls + 1
    /\ \E ok \in BOOLEAN :
         IF ok
         THEN /\ pc' = "create"
              /\ assistant' = assistant + 1
              /\ UNCHANGED raisedErr
         ELSE /\ pc' = "raised"
              /\ raisedErr' = <<"init", 0>>
              /\ UNCHANGED assistant
    /\ UNCHANGED <<sessions, threadVars, ownVars, runAssistant, retries, err, cycleVars, toolVars,
                   polls, retryVars, reportVars, endReason, wvars>>

\* line 142
CreateThread ==
    /\ pc = "create"
    /\ createCalls' = createCalls + 1
    /\ \E ok \in BOOLEAN :
         IF ok
         THEN /\ thread' = AssignThread(thread, nextThread)
              /\ nextThread' = nextThread + 1
              /\ live' = live \cup {nextThread}
              /\ attemptThread' = nextThread
              /\ callThreads' = callThreads \cup {nextThread}
              /\ pc' = "post"
              /\ UNCHANGED err
         ELSE /\ Fail("create")
              /\ attemptThread' = 0
              /\ UNCHANGED <<thread, nextThread, live, callThreads>>
    /\ listCalls' = 0
    /\ listed' = <<>>
    /\ emitted' = <<>>
    /\ endReason' = "none"
    /\ UNCHANGED <<sessions, assistantCalls, agentVars, deleted, retries, raisedErr, cycleVars,
                   toolVars, polls, delCalls, sleeps, wvars>>

\* lines 161-167
PostMessage ==
    /\ pc = "post"
    /\ \E ok \in BOOLEAN :
         IF ok THEN pc' = "run" /\ UNCHANGED err ELSE Fail("post")
    /\ UNCHANGED <<sessions, assistantCalls, threadVars, ownVars, agentVars, retries, raisedErr,
                   cycleVars, toolVars, polls, retryVars, reportVars, endReason, wvars>>

\* lines 169-174
CreateRun ==
    /\ pc = "run"
    /\ \E ok \in BOOLEAN :
         IF ok THEN pc' = "poll" /\ UNCHANGED err ELSE Fail("run")
    /\ runStatus' = "none"
    /\ batch' = <<>>
    /\ callIds' = <<>>
    /\ idx' = 0
    /\ tools_results' = <<>>
    /\ submits' = <<>>
    /\ outcomes' = <<>>
    /\ pollSleeps' = 0
    /\ runAssistant' = assistant
    /\ UNCHANGED <<sessions, assistantCalls, threadVars, ownVars, assistant, retries, raisedErr,
                   inFlight, toolVars, polls, retryVars, reportVars, endReason, wvars>>

\* lines 191-194: one status poll
Retrieve ==
    /\ pc = "poll"
    /\ polls < MaxPolls
    /\ polls' = polls + 1
    /\ submits' = <<>>
    /\ outcomes' = <<>>
    /\ pollSleeps' = 0
    /\ tools_results' = <<>>
    /\ \/ /\ Fail("retrieve")
          /\ UNCHANGED <<runStatus, batch, callIds, idx>>
       \/ \E st \in Statuses \ {"requires_action"} :
            /\ runStatus' = st
            /\ batch' = <<>>
            /\ callIds' = <<>>
            /\ idx' = 0
            /\ pc' = "sleep"
            /\ UNCHANGED err
       \/ \E b \in Batches :
            /\ runStatus' = "requires_action"
            /\ batch' = b
            /\ callIds' = [i \in 1..Len(b) |-> 10 * polls' + i]
            /\ idx' = 1
            /\ pc' = "dispatch"
            /\ UNCHANGED err
    /\ UNCHANGED <<sessions, assistantCalls, threadVars, ownVars, agentVars, retries, raisedErr,
                   inFlight, toolVars, retryVars, reportVars, endReason, wvars>>

\* Control after the body of the for loop of line 195 for element idx
NextCall ==
    /\ idx' = idx + 1
    /\ pc' = IF idx = Len(batch) THEN "submit" ELSE "dispatch"

\* The call of the for loop's current element needs fileContentGetter or
\* fileCommentator (lines 104 and 119)
NeedsExternal(toolCall, cache) ==
    \/ toolCall.name = "addReviewCommentToFileLine"
    \/ toolCall.name = "getFileContent" /\ ~CacheHit(cache, toolCall.pathToFile)

\* lines 195-207: one iteration of the for loop up to the handler's external
\* call, or to the end of the iteration when the handler makes none
Dispatch ==
    /\ pc = "dispatch"
    /\ LET toolCall == batch[idx]
           id == callIds[idx]
       IN
       IF ~toolCall.parses
       THEN \* line 197: JSON.parse raises outside the try of line 198
            /\ Fail("parse")
            /\ outcomes' = Append(outcomes, "parse_fail")
            /\ UNCHANGED <<idx, tools_results, toolVars, endReason, inFlight>>
       ELSE
       CASE NeedsExternal(toolCall, fileCache) ->
              /\ inFlight' = inFlight \cup {id}
              /\ pc' = Awaiting
              /\ UNCHANGED <<err, idx, tools_results, outcomes, toolVars, endReason>>
         [] toolCall.name = "getFileContent" /\ ~NeedsExternal(toolCall, fileCache) ->
              LET r == getFileContent(toolCall, fileCache, TRUE, CHOOSE t \in Texts : TRUE)
                  c == Caught(toolCall.name, r)
                  p == toolCall.pathToFile
              IN /\ fileCache' = r.cache
                 /\ served' = [served EXCEPT ![p] = @ \cup {r.content}]
                 /\ outcomes' = Append(outcomes, "cache_hit")
                 /\ tools_results' = PushResult(tools_results, id, c.output)
                 /\ NextCall
                 /\ UNCHANGED <<err, fetchCount, fetchOK, sink, endReason, inFlight>>
         [] toolCall.name = "codeReviewDone" ->
              \* line 204: return from processRun
              /\ pc' = "list"
              /\ endReason' = "done"
              /\ outcomes' = Append(outcomes, "done")
              /\ UNCHANGED <<err, idx, tools_results, toolVars, inFlight>>
         [] OTHER ->
              /\ tools_results' = PushResult(tools_results, id, UnknownTool(toolCall.name))
              /\ outcomes' = Append(outcomes, "unknown")
              /\ NextCall
              /\ UNCHANGED <<err, toolVars, endReason, inFlight>>
    /\ UNCHANGED <<sessions, assistantCalls, threadVars, ownVars, agentVars, retries, raisedErr,
                   runStatus, batch, callIds, polls, retryVars, pollSleeps, submits, reportVars,
                   wvars>>

\* lines 104-113, 119-123 and 208-211: the pending external call settles and
\* the iteration of the for loop finishes
Settle ==
    /\ pc = "await"
    /\ inFlight # {}
    /\ LET toolCall == batch[idx]
           id == callIds[idx]
       IN
       /\ inFlight' = inFlight \ {id}
       /\ IF toolCall.name = "getFileContent"
          THEN \E fetchOk \in BOOLEAN, text \in Texts :
                LET r == getFileContent(toolCall, fileCache, fetchOk, text)
                    c == Caught(toolCall.name, r)
                    p == toolCall.pathToFile
                IN \* a failing getter returns no text
                   /\ ~fetchOk => text = CHOOSE t \in Texts : TRUE
                   /\ fileCache' = r.cache
                   /\ fetchCount' = IF r.invoked THEN [fetchCount EXCEPT ![p] = @ + 1] ELSE fetchCount
                   /\ fetchOK' = IF r.invoked /\ fetchOk THEN [fetchOK EXCEPT ![p] = @ + 1] ELSE fetchOK
                   /\ served' = IF r.raised THEN served ELSE [served EXCEPT ![p] = @ \cup {r.content}]
                   /\ outcomes' = Append(outcomes, IF ~r.invoked THEN "cache_hit"
                                                   ELSE IF fetchOk THEN "fetch_ok" ELSE "fetch_fail")
                   /\ IF c.raised
                      THEN Fail("getFileContent") /\ UNCHANGED <<idx, tools_results>>
                      ELSE /\ tools_results' = PushResult(tools_results, id, c.output)
                           /\ NextCall
                           /\ UNCHANGED err
                   /\ UNCHANGED <<sink, endReason>>
          ELSE \E postOk \in BOOLEAN :
                LET r == addReviewCommentToFileLine(postOk)
                    c == Caught(toolCall.name, r)
                IN /\ sink' = IF postOk THEN [sink EXCEPT ![retries + 1] = @ + 1] ELSE sink
                   /\ outcomes' = Append(outcomes, IF postOk THEN "post_ok" ELSE "post_fail")
                   /\ IF c.raised
                      THEN Fail("addReviewCommentToFileLine") /\ UNCHANGED <<idx, tools_results>>
                      ELSE /\ tools_results' = PushResult(tools_results, id, c.output)
                           /\ NextCall
                           /\ UNCHANGED err
                   /\ UNCHANGED <<fileCache, fetchCount, fetchOK, served, endReason>>
    /\ UNCHANGED <<sessions, assistantCalls, threadVars, ownVars, agentVars, retries, raisedErr,
                   runStatus, batch, callIds, polls, retryVars, pollSleeps, submits, reportVars,
                   wvars>>

\* lines 214-216
SubmitToolOutputs ==
    /\ pc = "submit"
    /\ submits' = Append(submits, tools_results)
    /\ \E ok \in BOOLEAN :
         IF ok THEN pc' = "sleep" /\ UNCHANGED err ELSE Fail("submit")
    /\ UNCHANGED <<sessions, assistantCalls, threadVars, ownVars, agentVars, retries, raisedErr,
                   runStatus, batch, callIds, idx, tools_results, outcomes, pollSleeps, inFlight,
                   toolVars, polls, retryVars, reportVars, endReason, wvars>>

\* lines 219-220
PollSleep ==
    /\ pc = "sleep"
    /\ pollSleeps' = pollSleeps + PollDelay(runStatus)
    /\ IF LoopEnds(runStatus)
       THEN pc' = "list" /\ endReason' = "completed"
       ELSE pc' = "poll" /\ UNCHANGED endReason
    /\ UNCHANGED <<sessions, assistantCalls, threadVars, ownVars, agentVars, retries, err,
                   raisedErr, runStatus, batch, callIds, idx, tools_results, submits, outcomes,
                   inFlight, toolVars, polls, retryVars, reportVars, wvars>>

\* lines 178-182, then the break of line 144
ListMessages ==
    /\ pc = "list"
    /\ listCalls' = listCalls + 1
    /\ \/ /\ Fail("list")
          /\ UNCHANGED <<listed, emitted>>
       \/ \E data \in MessageLists(Messages, MaxMsgs) :
            /\ listed' = data
            /\ emitted' = reverse(data)
            /\ pc' = "returned"
            /\ UNCHANGED err
    /\ UNCHANGED <<sessions, assistantCalls, threadVars, ownVars, agentVars, retries, raisedErr,
                   cycleVars, toolVars, polls, retryVars, endReason, wvars>>

\* lines 145-152: the catch handler up to the backoff
DeleteThread ==
    /\ pc = "del"
    /\ IF thread = 0
       THEN \* this.thread is undefined: this.thread.id raises a TypeError
            /\ pc' = "raised"
            /\ raisedErr' = <<"TypeError", retries + 1>>
            /\ UNCHANGED <<live, deleted, retries, delCalls, sink>>
       ELSE /\ delCalls' = Append(delCalls, thread)
            /\ sink' = CommentsAfterFailure(sink, retries + 1)
            /\ \E ok \in BOOLEAN :
                 IF ok
                 THEN /\ live' = live \ {thread}
                      /\ deleted' = deleted \cup {thread}
                      /\ retries' = retries + 1
                      /\ IF Exhausted(retries')
                         THEN pc' = "raised" /\ raisedErr' = err
                         ELSE pc' = "backoff" /\ UNCHANGED raisedErr
                 ELSE /\ pc' = "raised"
                      /\ raisedErr' = <<"del", retries + 1>>
                      /\ UNCHANGED <<live, deleted, retries>>
    /\ UNCHANGED <<sessions, assistantCalls, thread, nextThread, ownVars, agentVars, err,
                   cycleVars, fileCache, fetchCount, fetchOK, served, polls, createCalls, sleeps,
                   reportVars, endReason, wvars>>

\* lines 153-154
Backoff ==
    /\ pc = "backoff"
    /\ sleeps' = Append(sleeps, BackoffDelay(retries))
    /\ pc' = RetryFrom
    /\ UNCHANGED <<sessions, assistantCalls, threadVars, ownVars, agentVars, retries, err,
                   raisedErr, cycleVars, toolVars, polls, createCalls, delCalls, reportVars,
                   endReason, wvars>>

Next ==
    \/ CallDoReview
    \/ InitCodeReviewAssistant
    \/ CreateThread
    \/ PostMessage
    \/ CreateRun
    \/ Retrieve
    \/ Dispatch
    \/ Settle
    \/ SubmitToolOutputs
    \/ PollSleep
    \/ ListMessages
    \/ DeleteThread
    \/ Backoff

Spec == Init /\ [][Next]_vars

\* ------------------------------------------------- window specification
\* getFileContent's window computation (lines 111-113) applied to one text and
\* one requested range drawn from bounded sets.
WTexts == {[i \in 1..n |-> i] : n \in 0..MaxTextLen}

WInit ==
    /\ MainInit
    /\ wText \in WTexts
    /\ wStart \in (0 - LineBelow)..MaxLine
    /\ wEnd \in (0 - LineBelow)..MaxLine
    /\ wOut = [s |-> 0, e |-> 0, slice |-> <<>>, done |-> FALSE]

WApply ==
    /\ ~wOut.done
    /\ wOut' = [s |-> WindowStart(wStart),
                e |-> WindowEnd(wEnd, Len(wText)),
                slice |-> Window("a.js", wText, wStart, wEnd).body,
                done |-> TRUE]
    /\ UNCHANGED <<mainvars, wText, wStart, wEnd>>

WNext == WApply

SpecWindow == WInit /\ [][WNext]_vars


\* ---------------------------------------------------------------- claims
HasDone(b) == \E i \in DOMAIN b : b[i].name = "codeReviewDone"
KnownTools == {"getFileContent", "addReviewCommentToFileLine", "codeReviewDone"}
Last(s) == s[Len(s)]

DoneShortCircuitsSubmission ==
    [][(pc = "dispatch" /\ batch[idx].name = "codeReviewDone")
        => /\ pc' = "list"
           /\ submits = <<>> /\ submits' = <<>>
           /\ UNCHANGED <<idx, tools_results, polls, pollSleeps, retries, err, live, deleted,
                          delCalls, fetchCount, sink>>]_vars

\* C3: a doReview call whose attempts all failed in steps 1-4 (it raised, and
\* neither assistants.create nor threads.del was the call that raised) has
\* called threads.create 3 times and threads.del 3 times, slept 2000 ms and then
\* 4000 ms, and raised the error of the 3rd attempt.
RetryBound ==
    (pc = "raised" /\ raisedErr[1] \notin {"init", "del"})
        => /\ createCalls = 3
           /\ Len(delCalls) = 3
           /\ sleeps = <<2000, 4000>>
           /\ raisedErr = err
           /\ raisedErr[2] = 3

\* C4: doReview raises only after 3 attempts have failed, and raises the
\* error of the last attempt.
RaisesOnlyAfterRetryBound ==
    pc = "raised" => (retries = 3 /\ raisedErr = err /\ raisedErr[2] = 3)

\* C5 as stated: within one doReview call fileContentGetter is invoked at most
\* once for any path, whatever the outcome of each fetch.
FetchAtMostOnce == \A p \in Paths : fetchCount[p] <= 1

\* C5 amended: within one doReview call fileContentGetter is never invoked
\* for a path that has a cache entry, so it succeeds at most once per path (a
\* failed fetch stores nothing and the next call for the path fetches again), and
\* every window returned for a path is sliced from the text stored for it.
FetchAtMostOnceSuccessfully ==
    /\ [](\A p \in Paths :
            /\ fetchOK[p] <= 1
            /\ fetchOK[p] = 1 => p \in DOMAIN fileCache
            /\ served[p] \subseteq (IF p \in DOMAIN fileCache THEN {fileCache[p]} ELSE {}))
    /\ [][\A p \in Paths : p \in DOMAIN fileCache => fetchCount'[p] <= fetchCount[p]]_vars

FetchRetriedThenCached ==
    /\ fetchCount["a.js"] = 2
    /\ fetchOK["a.js"] = 1
    /\ outcomes = <<"cache_hit">>
    /\ Len(tools_results) = 1
    /\ tools_results[1].output.body = fileCache["a.js"]

\* C6: the step in which fileContentGetter or fileCommentator fails stays
\* inside the for loop: the call gets an error-describing result under its own
\* id, the loop goes on to the next call or to the submission, and doReview's
\* handler is not entered (no error caught, retries and conversations untouched).
ToolErrorIsolation ==
    [][(Len(outcomes') = Len(outcomes) + 1 /\ Last(outcomes') \in {"fetch_fail", "post_fail"})
        => /\ pc = "await"
           /\ pc' = (IF idx = Len(batch) THEN "submit" ELSE "dispatch")
           /\ idx' = idx + 1
           /\ Len(tools_results') = Len(tools_results) + 1
           /\ SubSeq(tools_results', 1, Len(tools_results)) = tools_results
           /\ Last(tools_results').tool_call_id = callIds[idx]
           /\ Last(tools_results').output.kind =
                 (IF Last(outcomes') = "fetch_fail" THEN "errorProcessing" ELSE "usageError")
           /\ UNCHANGED <<err, retries, raisedErr, live, deleted, delCalls>>]_vars

BothToolFailuresSubmitted ==
    /\ outcomes = <<"fetch_fail", "post_fail">>
    /\ pc = "sleep"
    /\ Len(submits) = 1
    /\ Len(submits[1]) = 2
    /\ retries = 0
    /\ deleted = {}

\* C7: a doReview call that returned did so after codeReviewDone was observed
\* or after the status completed, and a doReview call that raised did so after
\* 3 failed attempts.
EndsForOneOfThreeReasons ==
    /\ pc = "returned" => (endReason \in {"done", "completed"} /\ retries < 3)
    /\ pc = "raised" => retries = 3

\* C8: a pending call with an unknown name gets the result "Unknown tool
\* requested: <name>" under its id, invokes neither fileContentGetter nor
\* fileCommentator, and the for loop goes on to the next call or the submission.
UnknownToolHandling ==
    [][(pc = "dispatch" /\ batch[idx].name \notin KnownTools)
        => /\ pc' = (IF idx = Len(batch) THEN "submit" ELSE "dispatch")
           /\ tools_results' = Append(tools_results,
                 [tool_call_id |-> callIds[idx],
                  output |-> [kind |-> "unknown", name |-> batch[idx].name, body |-> <<>>]])
           /\ UNCHANGED <<fetchCount, sink, fileCache, err, retries>>]_vars

\* C9 as stated: start = max(startLine - 20, 0), end = min(endLine + 20, L),
\* and 0 <= start <= end <= L.
WindowClamping ==
    wOut.done =>
        /\ wOut.s = (IF wStart - 20 >= 0 THEN wStart - 20 ELSE 0)
        /\ wOut.e = (IF wEnd + 20 <= Len(wText) THEN wEnd + 20 ELSE Len(wText))
        /\ 0 <= wOut.s /\ wOut.s <= wOut.e /\ wOut.e <= Len(wText)

\* C9 amended: start = max(startLine - 20, 0) >= 0 and end = min(endLine + 20, L)
\* <= L; start may exceed L or end, and end may be negative.  substring clamps
\* both into [0, L] and swaps them when start > end, so the text returned is the
\* slice [lo, hi) of the stored text for 0 <= lo <= hi <= L, lo and hi being the
\* smaller and the larger of the clamped indices; the request (5, 10) on a text
\* of length 12 returns [0, 12).
WindowWithinText ==
    wOut.done =>
        LET L == Len(wText)
            cs == IF wOut.s > L THEN L ELSE wOut.s
            ce == IF wOut.e < 0 THEN 0 ELSE wOut.e
            lo == IF cs <= ce THEN cs ELSE ce
            hi == IF cs <= ce THEN ce ELSE cs
        IN /\ wOut.s = (IF wStart - 20 >= 0 THEN wStart - 20 ELSE 0)
           /\ wOut.e = (IF wEnd + 20 <= L THEN wEnd + 20 ELSE L)
           /\ wOut.s >= 0 /\ wOut.e <= L
           /\ 0 <= lo /\ lo <= hi /\ hi <= L
           /\ wOut.slice = [i \in 1..(hi - lo) |-> wText[lo + i]]
           /\ (wStart = 5 /\ wEnd = 10 /\ L = 12) => (wOut.s = 0 /\ wOut.e = 12 /\ wOut.slice = wText)

WindowFiveTenOfTwelve ==
    /\ wOut.done
    /\ wStart = 5 /\ wEnd = 10 /\ Len(wText) = 12
    /\ wOut.slice = wText

\* C10: an attempt that ended normally listed the messages exactly once and
\* emitted them one each in the reverse of the order listed; an attempt whose
\* processRun did not return normally neither listed nor emitted anything.
TranscriptOrdering ==
    /\ pc = "returned" =>
          /\ listCalls = 1
          /\ Len(emitted) = Len(listed)
          /\ \A i \in 1..Len(listed) : emitted[i] = listed[Len(listed) + 1 - i]
    /\ (endReason # "none" /\ pc # "list") => listCalls = 1
    /\ endReason = "none" => (listCalls = 0 /\ emitted = <<>>)

TranscriptCBAEmittedABC ==
    /\ pc = "returned"
    /\ listed = <<"C", "B", "A">>
    /\ emitted = <<"A", "B", "C">>


\* C11: while an attempt posts, runs, polls, dispatches, submits or reports,
\* this.thread is the conversation that this attempt created and it is live; of
\* the conversations created by the current doReview call at most one is live;
\* and none of them is live when the next one is about to be created.
UsesThread == {"post", "run", "poll", "dispatch", "await", "submit", "sleep", "list"}
ConversationLifecycle ==
    /\ pc \in UsesThread =>
          /\ attemptThread # 0
          /\ thread = attemptThread
          /\ thread \in live
          /\ thread \notin deleted
    /\ Cardinality(live \cap callThreads) <= 1
    /\ pc \in {"create", "backoff"} => live \cap callThreads = {}

SecondConversationAfterDelete ==
    /\ pc = "poll"
    /\ retries = 1
    /\ Cardinality(callThreads) = 2
    /\ Cardinality(callThreads \cap deleted) = 1
    /\ live \cap callThreads = {thread}


\* C12 as stated: the cache is empty when a doReview call starts.
CacheEmptyAtCallStart == pc = "init" => fileCache = <<>>

\* C12 amended: the cache belongs to the MistralAPI object, not to one
\* session: it is empty when the object is constructed, a doReview call starts
\* with the entries earlier calls stored, and such an entry answers a
\* fetch-context call of the later call without fileContentGetter being invoked.
CacheOwnedByObject ==
    /\ [](sessions = 0 => fileCache = <<>>)
    /\ [][pc' = "init" => fileCache' = fileCache]_vars
    /\ [][(pc = "dispatch" /\ batch[idx].parses /\ batch[idx].name = "getFileContent"
             /\ batch[idx].pathToFile \in DOMAIN fileCache)
           => /\ UNCHANGED <<fetchCount, fileCache, inFlight>>
              /\ Last(tools_results').output.body = fileCache[batch[idx].pathToFile]]_vars

CacheHitFromEarlierCall ==
    /\ sessions = 2
    /\ outcomes = <<"cache_hit">>
    /\ fetchCount = ZeroCount
    /\ tools_results[1].output.kind = "window"


\* C13: every step keeps every cache entry as it is; a new entry appears only
\* in the step in which fileContentGetter succeeds for that path, as the text of
\* the window that step returns; and the step in which fileContentGetter fails
\* leaves the cache unchanged and gives the call an "Error processing" result.
CacheStability ==
    [][/\ \A p \in DOMAIN fileCache : p \in DOMAIN fileCache' /\ fileCache'[p] = fileCache[p]
       /\ \A p \in (DOMAIN fileCache') \ (DOMAIN fileCache) :
             /\ pc = "await"
             /\ batch[idx].pathToFile = p
             /\ Last(outcomes') = "fetch_ok"
             /\ fetchOK'[p] = fetchOK[p] + 1
             /\ fileCache'[p] \in Texts
             /\ Last(tools_results').output.body = fileCache'[p]
       /\ (Len(outcomes') = Len(outcomes) + 1 /\ Last(outcomes') = "fetch_fail")
             => /\ fileCache' = fileCache
                /\ Last(tools_results').tool_call_id = callIds[idx]
                /\ Last(tools_results').output.kind = "errorProcessing"
                /\ Last(tools_results').output.body = <<"Failed to retrieve file content">>]_vars

FetchFailsBesideCachedEntry ==
    /\ outcomes = <<"fetch_ok", "fetch_fail">>
    /\ DOMAIN fileCache = {"a.js"}
    /\ Len(tools_results) = 2
    /\ tools_results[2].output.kind = "errorProcessing"


\* C14: a call of the batch is started only when no external call is pending;
\* at most one external call is pending at any time, and it is the one of the
\* for loop's current element; the calls before the current element have all
\* produced their result, in the order of the batch; and what is submitted is
\* in that order too.
SequentialDispatch ==
    /\ Cardinality(inFlight) <= 1
    /\ pc = "await" => inFlight = {callIds[idx]}
    /\ pc # "await" => inFlight = {}
    /\ pc \in {"dispatch", "await"} =>
          /\ Len(tools_results) = idx - 1
          /\ Len(outcomes) = idx - 1
    /\ pc \in {"dispatch", "await", "submit"} =>
          \A i \in 1..Len(tools_results) : tools_results[i].tool_call_id = callIds[i]
    /\ \A k \in 1..Len(submits) :
          \A i \in 1..Len(submits[k]) : submits[k][i].tool_call_id = callIds[i]

SecondCallPendingAfterFirst ==
    /\ pc = "await"
    /\ idx = 2
    /\ outcomes = <<"post_ok">>
    /\ inFlight = {callIds[2]}
    /\ batch[2].name = "getFileContent"


\* C15: a status poll that is not the first of its run is preceded by exactly
\* one sleep of 1000 ms since the previous poll, whatever that poll reported and
\* whether or not tool outputs were submitted; the first poll of a run is
\* preceded by none.
PollPacing ==
    /\ [](pollSleeps \in {0, 1000})
    /\ [](pc = "poll" => pollSleeps = (IF runStatus = "none" THEN 0 ELSE 1000))
    /\ [][polls' = polls + 1
            => /\ pc = "poll"
               /\ pollSleeps = (IF runStatus = "none" THEN 0 ELSE 1000)
               /\ pollSleeps' = 0]_vars
    /\ [][(pc = "sleep" /\ pc' # "sleep") => pollSleeps' = pollSleeps + 1000]_vars

SleptAfterSubmission ==
    /\ pc = "poll"
    /\ polls = 1
    /\ runStatus = "requires_action"
    /\ Len(submits) = 1
    /\ pollSleeps = 1000


\* C16: in a run whose service calls have not raised, once the status poll has
\* reported completed or presented a batch containing codeReviewDone, processRun
\* does not end by raising: if doReview's handler is entered in that attempt, it
\* is because a service call raised (the report's messages.list, or a call of a
\* later attempt).
ServiceErrors == {"create", "post", "run", "retrieve", "submit", "list"}
PollerTermination ==
    (pc = "del" /\ (HasDone(batch) \/ runStatus = "completed")) => err[1] \in ServiceErrors


\* C17: a doReview call has called assistants.create exactly once by the time
\* it creates its first conversation and never calls it again, also not in a
\* retry; every run of the call is created with the definition that call
\* returned.
AgentDefinitionOnce ==
    /\ [](/\ pc = "init" => (assistantCalls = 0 /\ createCalls = 0)
          /\ pc \notin {"idle", "init"} => assistantCalls = 1
          /\ createCalls > 0 => assistantCalls = 1
          /\ pc \in {"poll", "dispatch", "await", "submit", "sleep"}
                => (assistant # 0 /\ runAssistant = assistant))
    /\ [][(sessions' = sessions /\ pc # "init") => assistant' = assistant]_vars
    /\ [][(runAssistant # 0 /\ runAssistant' # 0) => runAssistant' = runAssistant]_vars

ThirdAttemptSameDefinition ==
    /\ pc = "poll"
    /\ retries = 2
    /\ createCalls = 3
    /\ assistantCalls = 1
    /\ runAssistant = assistant


\* C18: every threads.del call issued by doReview's handler names the
\* conversation created by the attempt that just failed; none is issued when
\* that attempt created no conversation; and the conversation named has not
\* been deleted before.
DeleteTargetsFailedAttempt ==
    [][Len(delCalls') = Len(delCalls) + 1
        => /\ attemptThread # 0
           /\ Last(delCalls') = attemptThread
           /\ Last(delCalls') \notin deleted]_vars

\* C19: a status poll reporting failed, cancelled or expired is followed by
\* the sleep and then by the next poll: processRun does not return, raise or
\* submit, doReview's handler is not entered, no conversation is deleted and no
\* retry is counted.
NonSuccessStatuses == {"failed", "cancelled", "expired"}
NonSuccessStatusKeepsPolling ==
    /\ []((pc = "sleep" /\ runStatus \in NonSuccessStatuses)
            => (submits = <<>> /\ batch = <<>> /\ endReason = "none"))
    /\ [][(pc = "poll" /\ polls' = polls + 1 /\ pc' # "del" /\ runStatus' \in NonSuccessStatuses)
            => /\ pc' = "sleep"
               /\ UNCHANGED <<retries, err, raisedErr, live, deleted, delCalls, endReason,
                              createCalls>>]_vars
    /\ [][(pc = "sleep" /\ runStatus \in NonSuccessStatuses)
            => /\ pc' = "poll"
               /\ pollSleeps' = pollSleeps + 1000
               /\ UNCHANGED <<retries, err, raisedErr, live, deleted, delCalls, submits,
                              endReason, createCalls>>]_vars

ExpiredRunPolledAgain ==
    /\ pc = "poll"
    /\ runStatus = "expired"
    /\ polls = 1
    /\ pollSleeps = 1000
    /\ retries = 0
    /\ delCalls = <<>>

\* C20: within a doReview call the comments delivered to fileCommentator are
\* never taken back: not by the failure handler, which changes nothing but the
\* conversation and the retry count, and not by the return on codeReviewDone,
\* which drops only the results; so comments of several attempts accumulate.
NoCompensationOfComments ==
    /\ [][sessions' = sessions => \A a \in 1..maxRetries : sink'[a] >= sink[a]]_vars
    /\ [][pc = "del" => sink' = sink]_vars
    /\ [][(pc = "dispatch" /\ pc' = "list") => sink' = sink]_vars

CommentsOfTwoAttempts ==
    /\ sink[1] >= 1
    /\ sink[2] >= 1
    /\ retries = 1
    /\ deleted # {}

====
